---- MODULE Spec2Model ----
(***************************************************************************)
(* Model of deepaas/model.py: the process-wide model registry filled by    *)
(* register_models, the placeholder TestModel, the catch_error decorator   *)
(* and the ModelWrapper that forwards calls to the wrapped model.          *)
(***************************************************************************)
EXTENDS Integers, Sequences, FiniteSets, TLC

(* ------------------------------------------------------------------ *)
(* Bounds                                                              *)
(* ------------------------------------------------------------------ *)
\* number of threads that may call register_models
NThreads == 2
\* total number of register_models calls started in one run
MaxCalls == 2
\* longest positional argument list handed to a wrapper operation
MaxArgs == 2

Threads == 1..NThreads

(* ------------------------------------------------------------------ *)
(* Models: the objects a wrapper wraps                                 *)
(* ------------------------------------------------------------------ *)
\* the capability set (BaseModel's abstract methods)
Methods ==
  {"predict_file", "predict_data", "predict_url", "train",
   "get_metadata", "get_train_args", "get_test_args"}

\* what looking up and calling one method of a plugin object does:
\* the attribute is absent, the call returns, or the call raises
Behaviours ==
  {"missing", "returns",
   "NotImplementedError", "NotImplemented", "AttributeError", "ValueError"}

\* a Python dict with string keys and values; {} is the empty function
EmptyDict == [k \in {} |-> ""]

\* outcome of a call: a returned value or a raised exception, together with
\* the calls that reached the underlying model's methods
Return(v, calls) ==
  [kind |-> "return", exc |-> "", msg |-> "", value |-> v, calls |-> calls]

Raise(e, m, calls) ==
  [kind |-> "raise", exc |-> e, msg |-> m, value |-> EmptyDict, calls |-> calls]

\* the placeholder object TestModel()
TestModel ==
  [cls |-> "TestModel",
   beh |-> [m \in Methods |->
              IF m \in {"get_metadata", "get_train_args", "get_test_args"}
              THEN "returns" ELSE "NotImplementedError"]]

\* TestModel.get_metadata
TestModel_get_metadata ==
  [id |-> "0",
   name |-> "deepaas-test",
   description |-> "This is not a model at all, just a placeholder "
                   \o "for testing the API functionality. If you are "
                   \o "seeing this, it is because DEEPaaS could not "
                   \o "load a valid model.",
   author |-> "Alvaro Lopez Garcia",
   version |-> "0.0.1"]

\* a plugin object: any object exposing a subset of the methods
PluginModel(beh) == [cls |-> "Plugin", beh |-> beh]

\* getattr(model, method) succeeds
HasMethod(model, method) == model.beh[method] # "missing"

\* the positional-argument counts a TestModel method accepts
TestModelAccepts(method, args) ==
  CASE method \in {"predict_file", "predict_data", "predict_url"} -> Len(args) = 1
    [] method = "get_metadata" -> Len(args) = 0
    [] OTHER -> TRUE

\* calling model.method(*args), the attribute being present
ModelInvoke(model, method, args) ==
  LET calls == << <<method, args>> >> IN
  IF model.cls = "TestModel"
  THEN IF ~TestModelAccepts(method, args)
       THEN Raise("TypeError", "", calls)
       ELSE CASE method = "get_metadata" -> Return(TestModel_get_metadata, calls)
              [] method \in {"get_train_args", "get_test_args"} -> Return(EmptyDict, calls)
              [] OTHER -> Raise("NotImplementedError", "", calls)
  ELSE IF model.beh[method] = "returns"
       THEN Return([method |-> method, args |-> args], calls)
       ELSE Raise(model.beh[method], "raised by the model", calls)

(* ------------------------------------------------------------------ *)
(* catch_error and ModelWrapper                                        *)
(* ------------------------------------------------------------------ *)
\* catch_error with a bare except: every exception becomes NotImplemented
catch_error_any(r) ==
  IF r.kind = "raise"
  THEN Raise("NotImplemented", "Model does not implement this functionality", r.calls)
  ELSE r

\* the decorator: NotImplementedError becomes werkzeug's NotImplemented
catch_error(r) ==
  IF r.kind = "raise" /\ r.exc = "NotImplementedError"
  THEN Raise("NotImplemented", "Model does not implement this functionality", r.calls)
  ELSE r

\* ModelWrapper(name, model); id stands for the instance's identity
ModelWrapper(id, name, model) == [id |-> id, name |-> name, model |-> model]

\* _get_method without its try/except: the AttributeError escapes
get_method_call_unguarded(w, method, args) ==
  IF ~HasMethod(w.model, method)
  THEN Raise("AttributeError", "", <<>>)
  ELSE ModelInvoke(w.model, method, args)

\* self._get_method(method)(*args)
get_method_call(w, method, args) ==
  IF ~HasMethod(w.model, method)
  THEN Raise("NotImplemented",
             "Not implemented by underlying model (loaded '" \o w.name \o "')",
             <<>>)
  ELSE ModelInvoke(w.model, method, args)

\* ModelWrapper.get_metadata
get_metadata(w) ==
  LET r == IF ~HasMethod(w.model, "get_metadata")
           THEN Raise("AttributeError", "", <<>>)
           ELSE ModelInvoke(w.model, "get_metadata", <<>>)
  IN IF r.kind = "raise" /\ r.exc \in {"NotImplementedError", "AttributeError"}
     THEN Return([id |-> "0",
                  name |-> w.name,
                  description |-> "Could not load description from "
                                  \o "underlying model (loaded '" \o w.name \o "')"],
                 r.calls)
     ELSE r

\* ModelWrapper.predict_file, predict_data, predict_url, train
forward(w, method, args) == catch_error(get_method_call(w, method, args))

\* get_train_args / get_test_args without the inner try/except
get_args_no_default(w, method, args) ==
  catch_error(get_method_call(w, method, args))

\* ModelWrapper.get_train_args, get_test_args
get_args(w, method, args) ==
  catch_error(LET r == get_method_call(w, method, args)
              IN IF r.kind = "raise" /\ r.exc = "NotImplemented"
                 THEN Return(EmptyDict, r.calls)
                 ELSE r)

\* one wrapper operation, by name
WrapperCall(w, op, args) ==
  CASE op = "get_metadata" -> get_metadata(w)
    [] op \in {"get_train_args", "get_test_args"} -> get_args(w, op, args)
    [] OTHER -> forward(w, op, args)

(* ------------------------------------------------------------------ *)
(* State                                                               *)
(* ------------------------------------------------------------------ *)
VARIABLES
  MODELS,         \* the registry: model name -> wrapper
  MODELS_LOADED,  \* the flag guarding population
  pc,             \* per thread: position inside register_models
  todo,           \* per thread: items of the discovered dict not yet iterated
  nextId,         \* identity of the next ModelWrapper instance
  ret,            \* per thread: how its last register_models call ended
  started,        \* number of register_models calls begun
  completed,      \* number of register_models calls ended
  installed,      \* the plugins installed in the environment: name -> model
  discoveries,    \* per thread: number of loading.get_available_models() calls
  found,          \* per thread: how its last discovery ended
  resets,         \* per thread: number of times it executed MODELS = {}
  first,          \* the registry as it was when the first call ended
  wrapper,        \* the wrapper a caller holds
  lastOp,         \* the wrapper operation called last
  lastArgs,       \* its positional arguments
  result          \* its outcome

rvars == <<MODELS, MODELS_LOADED, pc, todo, nextId, ret, started, completed,
           installed, discoveries, found, resets, first>>
wvars == <<wrapper, lastOp, lastArgs, result>>
vars == <<MODELS, MODELS_LOADED, pc, todo, nextId, ret, started, completed,
          installed, discoveries, found, resets, first,
          wrapper, lastOp, lastArgs, result>>

\* a dict with no items
NoItems == [n \in {} |-> TestModel]
NoModels == [n \in {} |-> ModelWrapper(0, "", TestModel)]
NoResult == Return(EmptyDict, <<>>)

\* d[k] = v
Put(d, k, v) == [x \in (DOMAIN d) \cup {k} |-> IF x = k THEN v ELSE d[x]]
\* d without key k
Without(d, k) == [x \in (DOMAIN d) \ {k} |-> d[x]]

(* ------------------------------------------------------------------ *)
(* What plugin discovery can hand back                                 *)
(* ------------------------------------------------------------------ *)
PluginNames == {"m1", "deepaas-test"}

\* plugin objects exposing every method, nothing at all, and only a part
FullPlugin == PluginModel([m \in Methods |-> "returns"])
BarePlugin == PluginModel([m \in Methods |-> "missing"])
PartPlugin ==
  PluginModel([m \in Methods |->
                 CASE m \in {"predict_file", "get_metadata"} -> "returns"
                   [] m \in {"train", "get_train_args"} -> "NotImplementedError"
                   [] OTHER -> "missing"])
Plugins == {FullPlugin, BarePlugin, PartPlugin}

\* the dicts loading.get_available_models() may return: what is installed
\* does not change while the process runs
Available == UNION {[S -> Plugins] : S \in SUBSET PluginNames}

(* ------------------------------------------------------------------ *)
(* register_models, one statement per step                             *)
(* ------------------------------------------------------------------ *)
RegistryInit ==
  /\ MODELS = NoModels
  /\ MODELS_LOADED = FALSE
  /\ pc = [t \in Threads |-> "idle"]
  /\ todo = [t \in Threads |-> NoItems]
  /\ nextId = 1
  /\ ret = [t \in Threads |-> "none"]
  /\ started = 0
  /\ completed = 0
  /\ discoveries = [t \in Threads |-> 0]
  /\ found = [t \in Threads |-> "none"]
  /\ resets = [t \in Threads |-> 0]
  /\ first = NoModels

\* thread t enters register_models()
Call(t) ==
  /\ pc[t] = "idle"
  /\ started < MaxCalls
  /\ started' = started + 1
  /\ pc' = [pc EXCEPT ![t] = "test"]
  /\ ret' = [ret EXCEPT ![t] = "none"]
  /\ UNCHANGED <<MODELS, MODELS_LOADED, todo, nextId, completed, installed,
                 discoveries, found, resets, first>>
  /\ UNCHANGED wvars

\* the call of thread t ends; how is "returned" or "raised"
Leave(t, how) ==
  /\ pc' = [pc EXCEPT ![t] = "idle"]
  /\ ret' = [ret EXCEPT ![t] = how]
  /\ completed' = completed + 1
  /\ first' = IF completed = 0 THEN MODELS' ELSE first

\* register_models without the guard: the flag is never looked at
TestFlag_unguarded(t) ==
  /\ pc[t] = "test"
  /\ pc' = [pc EXCEPT ![t] = "reset"]
  /\ UNCHANGED <<MODELS, ret, completed, first>>
  /\ UNCHANGED <<MODELS_LOADED, todo, nextId, started, installed, discoveries,
                 found, resets>>
  /\ UNCHANGED wvars

\* if MODELS_LOADED: return
TestFlag(t) ==
  /\ pc[t] = "test"
  /\ IF MODELS_LOADED
     THEN /\ UNCHANGED MODELS
          /\ Leave(t, "returned")
     ELSE /\ pc' = [pc EXCEPT ![t] = "reset"]
          /\ UNCHANGED <<MODELS, ret, completed, first>>
  /\ UNCHANGED <<MODELS_LOADED, todo, nextId, started, installed, discoveries,
                 found, resets>>
  /\ UNCHANGED wvars

\* MODELS = {}
Reset(t) ==
  /\ pc[t] = "reset"
  /\ MODELS' = NoModels
  /\ resets' = [resets EXCEPT ![t] = @ + 1]
  /\ pc' = [pc EXCEPT ![t] = "discover"]
  /\ UNCHANGED <<MODELS_LOADED, todo, nextId, ret, started, completed,
                 installed, discoveries, found, first>>
  /\ UNCHANGED wvars

\* loading.get_available_models() returns the dict of installed plugins
DiscoverReturns(t) ==
  /\ pc[t] = "discover"
  /\ discoveries' = [discoveries EXCEPT ![t] = @ + 1]
  /\ found' = [found EXCEPT ![t] = "returned"]
  /\ todo' = [todo EXCEPT ![t] = installed]
  /\ pc' = [pc EXCEPT ![t] = IF DOMAIN installed = {} THEN "check" ELSE "insert"]
  /\ UNCHANGED <<MODELS, MODELS_LOADED, nextId, ret, started, completed,
                 installed, resets, first>>
  /\ UNCHANGED wvars

\* discovery raises and no except clause is there: the caller gets the error
DiscoverRaises_propagates(t) ==
  /\ pc[t] = "discover"
  /\ discoveries' = [discoveries EXCEPT ![t] = @ + 1]
  /\ found' = [found EXCEPT ![t] = "raised"]
  /\ UNCHANGED MODELS
  /\ Leave(t, "raised")
  /\ UNCHANGED <<MODELS_LOADED, todo, nextId, started, installed, resets>>
  /\ UNCHANGED wvars

\* loading.get_available_models() raises; except Exception logs a warning
DiscoverRaises(t) ==
  /\ pc[t] = "discover"
  /\ discoveries' = [discoveries EXCEPT ![t] = @ + 1]
  /\ found' = [found EXCEPT ![t] = "raised"]
  /\ pc' = [pc EXCEPT ![t] = "check"]
  /\ UNCHANGED <<MODELS, MODELS_LOADED, todo, nextId, ret, started, completed,
                 installed, resets, first>>
  /\ UNCHANGED wvars

\* the loop with a load-time check: a model lacking a method is left out
Insert_rejects_incomplete(t) ==
  /\ pc[t] = "insert"
  /\ \E name \in DOMAIN todo[t] :
       /\ MODELS' = IF \A m \in Methods : HasMethod(todo[t][name], m)
                    THEN Put(MODELS, name,
                             ModelWrapper(nextId, name, todo[t][name]))
                    ELSE MODELS
       /\ todo' = [todo EXCEPT ![t] = Without(@, name)]
       /\ pc' = [pc EXCEPT ![t] =
                   IF DOMAIN todo[t] = {name} THEN "check" ELSE "insert"]
  /\ nextId' = nextId + 1
  /\ UNCHANGED <<MODELS_LOADED, ret, started, completed, installed,
                 discoveries, found, resets, first>>
  /\ UNCHANGED wvars

\* one turn of the loop: MODELS[name] = ModelWrapper(name, model)
Insert(t) ==
  /\ pc[t] = "insert"
  /\ \E name \in DOMAIN todo[t] :
       /\ MODELS' = Put(MODELS, name, ModelWrapper(nextId, name, todo[t][name]))
       /\ todo' = [todo EXCEPT ![t] = Without(@, name)]
       /\ pc' = [pc EXCEPT ![t] =
                   IF DOMAIN todo[t] = {name} THEN "check" ELSE "insert"]
  /\ nextId' = nextId + 1
  /\ UNCHANGED <<MODELS_LOADED, ret, started, completed, installed,
                 discoveries, found, resets, first>>
  /\ UNCHANGED wvars

\* the emptiness test left out: no placeholder is ever loaded
CheckEmpty_never(t) ==
  /\ pc[t] = "check"
  /\ pc' = [pc EXCEPT ![t] = "setflag"]
  /\ UNCHANGED <<MODELS, MODELS_LOADED, todo, nextId, ret, started, completed,
                 installed, discoveries, found, resets, first>>
  /\ UNCHANGED wvars

\* if not MODELS:
CheckEmpty(t) ==
  /\ pc[t] = "check"
  /\ pc' = [pc EXCEPT ![t] =
              IF DOMAIN MODELS = {} THEN "placeholder" ELSE "setflag"]
  /\ UNCHANGED <<MODELS, MODELS_LOADED, todo, nextId, ret, started, completed,
                 installed, discoveries, found, resets, first>>
  /\ UNCHANGED wvars

\* the placeholder stored under another key than its wrapper's name
Placeholder_other_key(t) ==
  /\ pc[t] = "placeholder"
  /\ MODELS' = Put(MODELS, "test",
                   ModelWrapper(nextId, "deepaas-test", TestModel))
  /\ nextId' = nextId + 1
  /\ pc' = [pc EXCEPT ![t] = "setflag"]
  /\ UNCHANGED <<MODELS_LOADED, todo, ret, started, completed, installed,
                 discoveries, found, resets, first>>
  /\ UNCHANGED wvars

\* MODELS["deepaas-test"] = ModelWrapper("deepaas-test", TestModel())
Placeholder(t) ==
  /\ pc[t] = "placeholder"
  /\ MODELS' = Put(MODELS, "deepaas-test",
                   ModelWrapper(nextId, "deepaas-test", TestModel))
  /\ nextId' = nextId + 1
  /\ pc' = [pc EXCEPT ![t] = "setflag"]
  /\ UNCHANGED <<MODELS_LOADED, todo, ret, started, completed, installed,
                 discoveries, found, resets, first>>
  /\ UNCHANGED wvars

\* the last statement left out: the function returns with the flag unset
SetFlag_forgets(t) ==
  /\ pc[t] = "setflag"
  /\ UNCHANGED <<MODELS, MODELS_LOADED>>
  /\ Leave(t, "returned")
  /\ UNCHANGED <<todo, nextId, started, installed, discoveries, found, resets>>
  /\ UNCHANGED wvars

\* MODELS_LOADED = True, and the function returns
SetFlag(t) ==
  /\ pc[t] = "setflag"
  /\ MODELS_LOADED' = TRUE
  /\ UNCHANGED MODELS
  /\ Leave(t, "returned")
  /\ UNCHANGED <<todo, nextId, started, installed, discoveries, found, resets>>
  /\ UNCHANGED wvars

\* the statements of register_models after its entry
Step(t) ==
  \/ TestFlag(t)
  \/ Reset(t)
  \/ DiscoverReturns(t)
  \/ DiscoverRaises(t)
  \/ Insert(t)
  \/ CheckEmpty(t)
  \/ Placeholder(t)
  \/ SetFlag(t)

\* no caller holds a wrapper in the registry runs
NoWrapper ==
  /\ wrapper = ModelWrapper(0, "deepaas-test", TestModel)
  /\ lastOp = "none"
  /\ lastArgs = <<>>
  /\ result = NoResult

Init == RegistryInit /\ installed \in Available /\ NoWrapper

\* calls that do not overlap: one call in the process at a time
SeqCall(t) == (\A u \in Threads : pc[u] = "idle") /\ Call(t)

Next == \E t \in Threads : SeqCall(t) \/ Step(t)

Spec == Init /\ [][Next]_vars

\* threads calling register_models concurrently
ConcNext == \E t \in Threads : Call(t) \/ Step(t)

SpecConc == Init /\ [][ConcNext]_vars

(* ------------------------------------------------------------------ *)
(* Calling the operations of one wrapper                               *)
(* ------------------------------------------------------------------ *)
ArgValues == {"a", "b"}
ArgLists == UNION {[1..n -> ArgValues] : n \in 0..MaxArgs}
WrapperNames == {"m1", "deepaas-test"}

\* plugin objects: every method behaves as base, but for one method
OneOff(base, m, b) ==
  PluginModel([x \in Methods |-> IF x = m THEN b ELSE base])
WrappedModels ==
  {TestModel} \cup
  {OneOff(base, m, b) : base \in Behaviours, m \in Methods, b \in Behaviours}

WrapInit ==
  /\ RegistryInit
  /\ installed = NoItems
  /\ wrapper \in {ModelWrapper(0, n, m) : n \in WrapperNames, m \in WrappedModels}
  /\ lastOp = "none"
  /\ lastArgs = <<>>
  /\ result = NoResult

\* wrapper.op(*args); get_metadata takes no argument
Invoke(op, args) ==
  /\ op = "get_metadata" => args = <<>>
  /\ lastOp' = op
  /\ lastArgs' = args
  /\ result' = WrapperCall(wrapper, op, args)
  /\ UNCHANGED wrapper
  /\ UNCHANGED rvars

WrapNext == \E op \in Methods, args \in ArgLists : Invoke(op, args)

SpecWrap == WrapInit /\ [][WrapNext]_vars

(* ------------------------------------------------------------------ *)
(* Properties of register_models                                       *)
(* ------------------------------------------------------------------ *)
RECURSIVE SumOver(_, _)
SumOver(f, S) ==
  IF S = {} THEN 0
  ELSE LET x == CHOOSE y \in S : TRUE IN f[x] + SumOver(f, S \ {x})

TotalDiscoveries == SumOver(discoveries, Threads)
TotalResets == SumOver(resets, Threads)

\* the body of register_models past the flag test
InBody(t) == pc[t] \notin {"idle", "test"}

\* C1: with calls that do not overlap, once the first register_models call
\* has ended, discovery has been invoked exactly once (by that call) and the
\* registry stays the mapping the first call left: same names, same wrapper
\* instances, whatever the first call's discovery gave.
C1_Idempotent ==
  completed >= 1 => /\ TotalDiscoveries = 1
                    /\ MODELS = first

\* a second call has ended after a first call whose discovery failed
C1_Witness ==
  /\ completed >= 2
  /\ \E t \in Threads : found[t] = "raised"

\* C2: when discovery returns no plugin, the registry after register_models
\* holds exactly the entry "deepaas-test", a wrapper named "deepaas-test"
\* around TestModel, and get_metadata on it returns the fixed fields.
C2_PlaceholderOnly ==
  (/\ completed >= 1
   /\ DOMAIN installed = {}
   /\ \E t \in Threads : found[t] = "returned")
  => /\ DOMAIN MODELS = {"deepaas-test"}
     /\ MODELS["deepaas-test"].name = "deepaas-test"
     /\ MODELS["deepaas-test"].model = TestModel
     /\ LET r == get_metadata(MODELS["deepaas-test"])
        IN /\ r.kind = "return"
           /\ r.value =
                [id |-> "0",
                 name |-> "deepaas-test",
                 author |-> "Alvaro Lopez Garcia",
                 version |-> "0.0.1",
                 description |-> "This is not a model at all, just a placeholder for testing the API functionality. If you are seeing this, it is because DEEPaaS could not load a valid model."]

\* a call has ended whose discovery returned an empty dict
C2_Witness ==
  /\ completed >= 1
  /\ DOMAIN installed = {}
  /\ \E t \in Threads : found[t] = "returned" /\ pc[t] = "idle"

\* C3: a discovery failure never reaches the caller of register_models; when
\* the call whose discovery failed has returned, the flag is set and the
\* registry holds the placeholder; and with calls that do not overlap the
\* registry is non-empty after any completed call.
C3_FailureFallsBack ==
  /\ \A t \in Threads : ret[t] # "raised"
  /\ \A t \in Threads :
       (pc[t] = "idle" /\ found[t] = "raised")
       => /\ ret[t] = "returned"
          /\ MODELS_LOADED
          /\ DOMAIN MODELS = {"deepaas-test"}
          /\ MODELS["deepaas-test"].model = TestModel
  /\ completed >= 1 => DOMAIN MODELS # {}

\* a call whose discovery raised has returned
C3_Witness ==
  \E t \in Threads : pc[t] = "idle" /\ found[t] = "raised" /\ ret[t] = "returned"

\* C6: when discovery returns a non-empty dict D, the registry after the
\* first register_models has exactly D's names, each entry a wrapper with
\* that name around D's model, whatever methods the model exposes; the
\* placeholder appears only if D holds its name.
C6_OneWrapperPerPlugin ==
  (/\ completed >= 1
   /\ DOMAIN installed # {}
   /\ \E t \in Threads : found[t] = "returned")
  => /\ DOMAIN MODELS = DOMAIN installed
     /\ \A n \in DOMAIN MODELS :
          /\ MODELS[n].name = n
          /\ MODELS[n].model = installed[n]

\* a plugin exposing no method at all has been registered
C6_Witness ==
  /\ completed >= 1
  /\ DOMAIN installed = {"m1"}
  /\ installed["m1"] = BarePlugin
  /\ \E t \in Threads : found[t] = "returned"

\* C7 as stated: under any interleaving of concurrent callers, discovery is
\* invoked at most once and the registry is reset at most once.
C7_PopulatedOnce ==
  /\ TotalDiscoveries <= 1
  /\ TotalResets <= 1

\* C7 amended: under any interleaving, each thread resets the registry and
\* invokes discovery in at most one of its calls.
C7_OncePerThread ==
  \A t \in Threads : discoveries[t] <= 1 /\ resets[t] <= 1

\* the callers raced: each of them has run discovery, and all have returned
C7_Witness ==
  \A t \in Threads : discoveries[t] = 1 /\ pc[t] = "idle"

\* C10 as stated: in every reachable state, the flag being set implies a
\* non-empty registry.
C10_LoadedNonEmpty ==
  MODELS_LOADED => DOMAIN MODELS # {}

\* C10 amended: the flag being set implies a non-empty registry in every
\* state where no caller is inside the body of register_models.
C10_LoadedQuiescentNonEmpty ==
  (MODELS_LOADED /\ \A t \in Threads : ~InBody(t)) => DOMAIN MODELS # {}

\* two callers raced through the body and both have returned
C10_Witness ==
  /\ MODELS_LOADED
  /\ TotalResets >= 2
  /\ \A t \in Threads : pc[t] = "idle"

(* ------------------------------------------------------------------ *)
(* Properties of ModelWrapper                                          *)
(* ------------------------------------------------------------------ *)
ActionOps == {"predict_file", "predict_data", "predict_url", "train"}
ArgsOps == {"get_train_args", "get_test_args"}

\* the wrapped model has the method called last, and what calling it does
Called == lastOp \in Methods
Present == Called /\ HasMethod(wrapper.model, lastOp)
Underlying == ModelInvoke(wrapper.model, lastOp, lastArgs)

\* the same wrapper around the same object without the method called last
WithoutMethod ==
  [wrapper EXCEPT !.model.beh[lastOp] = "missing"]

IsNotImplemented(r) == r.kind = "raise" /\ r.exc = "NotImplemented"

\* C4 as stated: every wrapper operation raises NotImplemented when the
\* model lacks the method.
C4_MissingRaises ==
  (Called /\ ~Present) => IsNotImplemented(result)

\* C4 amended: predict_file, predict_data, predict_url and train raise
\* NotImplemented when the model lacks the method, without calling the model.
C4_MissingActionRaises ==
  (lastOp \in ActionOps /\ ~Present)
  => IsNotImplemented(result) /\ result.calls = <<>>

\* train was called on a model that has other methods but not train
C4_Witness ==
  /\ lastOp = "train"
  /\ ~HasMethod(wrapper.model, "train")
  /\ HasMethod(wrapper.model, "predict_file")

\* C5: for every wrapper operation, a model whose method raises
\* NotImplementedError gives the outcome a model lacking the method gives.
C5_Uniform ==
  (Present /\ Underlying.kind = "raise" /\ Underlying.exc = "NotImplementedError")
  => LET other == WrapperCall(WithoutMethod, lastOp, lastArgs)
     IN /\ result.kind = other.kind
        /\ result.exc = other.exc
        /\ result.value = other.value

\* C8 as stated: for the six forwarding operations, when the model has the
\* method, it is called once with the arguments received, its result is
\* returned unchanged and any exception but NotImplementedError is let through.
C8_PureForwarding ==
  (Present /\ lastOp # "get_metadata")
  => /\ result.calls = << <<lastOp, lastArgs>> >>
     /\ Underlying.kind = "return" => result = Underlying
     /\ (Underlying.kind = "raise" /\ Underlying.exc # "NotImplementedError")
        => result = Underlying

\* C8 amended: as stated, except that get_train_args and get_test_args turn
\* a werkzeug NotImplemented raised by the model's method into an empty dict.
C8_ForwardingButArgsDefault ==
  (Present /\ lastOp # "get_metadata")
  => /\ result.calls = << <<lastOp, lastArgs>> >>
     /\ Underlying.kind = "return" => result = Underlying
     /\ (/\ Underlying.kind = "raise"
         /\ Underlying.exc # "NotImplementedError"
         /\ ~(lastOp \in ArgsOps /\ Underlying.exc = "NotImplemented"))
        => result = Underlying
     /\ (lastOp \in ArgsOps /\ IsNotImplemented(Underlying))
        => result.kind = "return" /\ result.value = EmptyDict

\* predict_data was called with two arguments on a model raising ValueError
C8_Witness ==
  /\ lastOp = "predict_data"
  /\ Len(lastArgs) = 2
  /\ wrapper.model.beh["predict_data"] = "ValueError"
  /\ result.exc = "ValueError"

\* C9: on a model lacking the method, get_train_args and get_test_args
\* return an empty dict; get_metadata, on a model lacking it or raising
\* NotImplementedError from it, returns the fallback naming the wrapper.
C9_Defaults ==
  /\ (lastOp \in ArgsOps /\ ~Present)
     => result.kind = "return" /\ result.value = EmptyDict
  /\ (/\ lastOp = "get_metadata"
      /\ wrapper.model.beh["get_metadata"] \in {"missing", "NotImplementedError"})
     => /\ result.kind = "return"
        /\ result.value =
             [id |-> "0",
              name |-> wrapper.name,
              description |-> "Could not load description from underlying model (loaded '"
                              \o wrapper.name \o "')"]

\* get_metadata was called on a wrapper "m1" whose model raises
\* NotImplementedError from it
C9_Witness ==
  /\ lastOp = "get_metadata"
  /\ wrapper.name = "m1"
  /\ wrapper.model.beh["get_metadata"] = "NotImplementedError"
  /\ result.kind = "return"

====
